---- MODULE Spec2Model ----
(***************************************************************************)
(* A model of ip2as.py: the numeric validity predicate valid(), the        *)
(* multi-origin disambiguation determine_bgp(), the layered table builder  *)
(* create_table() and the source reader read_prefixes().                   *)
(*                                                                         *)
(* Python strings are sequences of one-character strings, so that          *)
(* str.split, int() and str() are modelled by what they do.  Python        *)
(* integers are unbounded; where a value may exceed 32 bits (valid() and   *)
(* the registry reader) an integer n is the pair [hi, lo] with             *)
(* n = hi * 65536 + lo and 0 <= lo < 65536.                                *)
(***************************************************************************)
EXTENDS Integers, Sequences, FiniteSets, TLC

VARIABLES pc,
          asn, ok,
          segs, token, as2org, cone, conesize, result,
          table, layer, kept, idx,
          lines, ln, prefixes, stale

vars == <<pc, asn, ok, segs, token, as2org, cone, conesize, result,
          table, layer, kept, idx, lines, ln, prefixes, stale>>

validVars == <<asn, ok>>
bgpVars == <<segs, token, result>>
dataVars == <<as2org, cone, conesize>>
tableVars == <<table, layer, kept, idx>>
readVars == <<lines, ln, prefixes, stale>>

(***************************************************************************)
(* Bounds of the model.                                                    *)
(***************************************************************************)
\* candidates of one raw AS-origin token
MaxCands == 2
\* largest customer-cone size of the cone data
MaxConeSize == 1
\* entries of one source layer handed to create_table
MaxLayer == 2
\* lines of a file handed to read_prefixes
MaxLines == 2
\* distance from each threshold of valid() at which AS numbers are sampled
Radius == 6

\* the AS numbers of the model's datasets
ASNS == {2, 3, 10}
Orgs == {"OrgX", "OrgY"}

(***************************************************************************)
(* Strings.                                                                *)
(***************************************************************************)
DigitChars == <<"0", "1", "2", "3", "4", "5", "6", "7", "8", "9">>

IsDigit(c) == \E i \in 1..10 : DigitChars[i] = c

DigitVal(c) == (CHOOSE i \in 1..10 : DigitChars[i] = c) - 1

Has(s, c) == \E i \in 1..Len(s) : s[i] = c

FirstIdx(s, c) == CHOOSE i \in 1..Len(s) : s[i] = c /\ \A j \in 1..(i - 1) : s[j] # c

\* s.split(c): the pieces between the occurrences of c, empty pieces included
RECURSIVE SplitOn(_, _)
SplitOn(s, c) ==
    IF ~Has(s, c) THEN <<s>>
    ELSE LET i == FirstIdx(s, c)
         IN  <<SubSeq(s, 1, i - 1)>> \o SplitOn(SubSeq(s, i + 1, Len(s)), c)

\* s.split(): the maximal runs of non-blank characters
RECURSIVE SplitWs(_)
SplitWs(s) ==
    IF s = <<>> THEN <<>>
    ELSE IF s[1] = " " THEN SplitWs(Tail(s))
    ELSE IF ~Has(s, " ") THEN <<s>>
    ELSE LET i == FirstIdx(s, " ")
         IN  <<SubSeq(s, 1, i - 1)>> \o SplitWs(SubSeq(s, i, Len(s)))

\* sep.join(parts)
RECURSIVE Join(_, _)
Join(parts, sep) ==
    IF parts = <<>> THEN <<>>
    ELSE IF Len(parts) = 1 THEN parts[1]
    ELSE parts[1] \o <<sep>> \o Join(Tail(parts), sep)

\* int(s) raises ValueError unless s is a non-empty run of digits
IntOk(s) == s # <<>> /\ \A i \in 1..Len(s) : IsDigit(s[i])

\* int(s) for a value that fits a machine word
RECURSIVE PyInt(_)
PyInt(s) ==
    IF s = <<>> THEN 0
    ELSE PyInt(SubSeq(s, 1, Len(s) - 1)) * 10 + DigitVal(s[Len(s)])

\* str(n) for n >= 0
RECURSIVE PyStr(_)
PyStr(n) ==
    IF n < 10 THEN <<DigitChars[n + 1]>>
    ELSE PyStr(n \div 10) \o <<DigitChars[(n % 10) + 1]>>

Limb == 2^16

\* int(s) as the pair [hi, lo]
RECURSIVE PyIntWide(_)
PyIntWide(s) ==
    IF s = <<>> THEN [hi |-> 0, lo |-> 0]
    ELSE LET a == PyIntWide(SubSeq(s, 1, Len(s) - 1))
             t == a.lo * 10 + DigitVal(s[Len(s)])
         IN  [hi |-> a.hi * 10 + (t \div Limb), lo |-> t % Limb]

\* str(n) of the pair n = [hi, lo], n >= 0
RECURSIVE PyStrWide(_)
PyStrWide(n) ==
    IF n.hi = 0 /\ n.lo < 10 THEN <<DigitChars[n.lo + 1]>>
    ELSE LET t == (n.hi % 10) * Limb + n.lo
         IN  PyStrWide([hi |-> n.hi \div 10, lo |-> t \div 10])
                 \o <<DigitChars[(t % 10) + 1]>>

(***************************************************************************)
(* valid(asn), line 14:                                                    *)
(*   asn != 23456 and 0 < asn < 64496 or 131071 < asn < 4200000000         *)
(* "and" binds tighter than "or".                                          *)
(***************************************************************************)
AS_TRANS == 23456
ReservedLow == 64496
ReservedHigh == 131071
\* 4200000000 = AsnLimitHi * 65536 + AsnLimitLo
AsnLimitHi == 64086
AsnLimitLo == 59904

Wide(n) == [hi |-> n \div Limb, lo |-> n % Limb]

Less(a, b) == a.hi < b.hi \/ (a.hi = b.hi /\ a.lo < b.lo)

AsnLimit == [hi |-> AsnLimitHi, lo |-> AsnLimitLo]

\* line 14 with <= 64496 in the place of < 64496
ValidLooseBand(a) ==
    \/ (a # Wide(AS_TRANS) /\ Less(Wide(0), a) /\ ~Less(Wide(ReservedLow), a))
    \/ (Less(Wide(ReservedHigh), a) /\ Less(a, AsnLimit))

\* line 14
valid(a) ==
    \/ (a # Wide(AS_TRANS) /\ Less(Wide(0), a) /\ Less(a, Wide(ReservedLow)))
    \/ (Less(Wide(ReservedHigh), a) /\ Less(a, AsnLimit))

(***************************************************************************)
(* Raw AS-origin tokens.  A token is written from a list of segments, each *)
(* a plain AS number or a {a,b,...} confederation; `{}` and the empty      *)
(* token are the ill-formed ones.                                          *)
(***************************************************************************)
SeqsUpTo(S, n) == UNION {[1..k -> S] : k \in 0..n}

Plain(a) == [conf |-> FALSE, mem |-> <<a>>]

Conf(m) == [conf |-> TRUE, mem |-> m]

\* a segment counts for its members, an empty confederation for a whole token
RECURSIVE NumCands(_)
NumCands(ss) ==
    IF ss = <<>> THEN 0
    ELSE (IF ss[1].mem = <<>> THEN MaxCands ELSE Len(ss[1].mem)) + NumCands(Tail(ss))

\* a plain AS number, or a confederation of no or of several members
SegSet == {Plain(a) : a \in ASNS}
              \cup {Conf(m) : m \in SeqsUpTo(ASNS, MaxCands) \ {<<a>> : a \in ASNS}}

TokenShapes == {ss \in SeqsUpTo(SegSet, MaxCands) : NumCands(ss) <= MaxCands}

RECURSIVE StrAll(_)
StrAll(m) == IF m = <<>> THEN <<>> ELSE <<PyStr(m[1])>> \o StrAll(Tail(m))

FormatSeg(sg) ==
    IF sg.conf THEN <<"{">> \o Join(StrAll(sg.mem), ",") \o <<"}">>
    ELSE PyStr(sg.mem[1])

RECURSIVE FormatSegs(_)
FormatSegs(ss) ==
    IF ss = <<>> THEN <<>> ELSE <<FormatSeg(ss[1])>> \o FormatSegs(Tail(ss))

FormatToken(ss) == Join(FormatSegs(ss), "_")

WellFormed(ss) == ss # <<>> /\ \A i \in 1..Len(ss) : ss[i].mem # <<>>

RECURSIVE CandsOf(_)
CandsOf(ss) == IF ss = <<>> THEN <<>> ELSE ss[1].mem \o CandsOf(Tail(ss))

(***************************************************************************)
(* determine_bgp(asn_s, as2org, bgp), lines 35-54.                         *)
(***************************************************************************)
Raised == [raised |-> TRUE, value |-> 0]

Return(v) == [raised |-> FALSE, value |-> v]

\* line 39 without the slice [1:-1]
ExpandKeepBraces(piece) ==
    IF piece[1] = "{" THEN SplitOn(piece, ",") ELSE <<piece>>

\* lines 38-42: the members one `_`-separated segment stands for
Expand(piece) ==
    IF piece[1] = "{" THEN SplitOn(SubSeq(piece, 2, Len(piece) - 1), ",")
    ELSE <<piece>>

RECURSIVE Flatten(_)
Flatten(ps) == IF ps = <<>> THEN <<>> ELSE Expand(ps[1]) \o Flatten(Tail(ps))

\* asn[0] of an empty segment raises IndexError, int() of a non-number ValueError
ParseRaises(tok) ==
    LET ps == SplitOn(tok, "_")
    IN  IF \E i \in 1..Len(ps) : ps[i] = <<>> THEN TRUE
        ELSE \E i \in 1..Len(Flatten(ps)) : ~IntOk(Flatten(ps)[i])

RECURSIVE IntAll(_)
IntAll(ms) == IF ms = <<>> THEN <<>> ELSE <<PyInt(ms[1])>> \o IntAll(Tail(ms))

\* lines 36-42
ParseAsns(tok) == IntAll(Flatten(SplitOn(tok, "_")))

Range(s) == {s[i] : i \in 1..Len(s)}

\* line 45
OrgsOf(asns, org) == {org[a] : a \in Range(asns)}

\* line 49 with the containment turned around
InConeOfOthersReversed(a, asns, cn) ==
    \A i \in 1..Len(asns) : asns[i] # a => asns[i] \in cn[a]

\* line 49: all(asn in bgp.cone[other] for other in asns if other != asn)
InConeOfOthers(a, asns, cn) ==
    \A i \in 1..Len(asns) : asns[i] # a => a \in cn[asns[i]]

\* traceutils max_num(iterable, key): the items whose key is the largest, in
\* the order of the iterable
max_num(items, key) ==
    IF items = <<>> THEN <<>>
    ELSE LET best == CHOOSE k \in {key[x] : x \in Range(items)} :
                         \A x \in Range(items) : key[x] <= k
         IN  SelectSeq(items, LAMBDA x : key[x] = best)

\* lines 51-54 with the key conesize[x] instead of -conesize[x]
SmallestConeLargest(asns, cs) ==
    LET mins == max_num(asns, [x \in ASNS |-> cs[x]])
    IN  IF mins # <<>> THEN mins[1] ELSE asns[1]

\* lines 51-54: mins = max_num(asns, key=lambda x: -bgp.conesize[x])
SmallestCone(asns, cs) ==
    LET mins == max_num(asns, [x \in ASNS |-> 0 - cs[x]])
    IN  IF mins # <<>> THEN mins[1] ELSE asns[1]

\* lines 48-50 returning the head of the list once some candidate is found
FirstInConeHead(asns, cn) == asns[1]

\* lines 48-50: the first candidate that lies in the cone of every other one
FirstInCone(asns, cn) ==
    LET hits == {i \in 1..Len(asns) : InConeOfOthers(asns[i], asns, cn)}
    IN  asns[CHOOSE i \in hits : \A j \in hits : i <= j]

determine_bgp(tok, org, cn, cs) ==
    IF ParseRaises(tok) THEN Raised
    ELSE LET asns == ParseAsns(tok)
         IN  IF Len(asns) = 1 THEN Return(asns[1])
             ELSE IF Cardinality(OrgsOf(asns, org)) = 1 THEN Return(asns[1])
             ELSE IF \E i \in 1..Len(asns) : InConeOfOthers(asns[i], asns, cn)
                  THEN Return(FirstInCone(asns, cn))
             ELSE Return(SmallestCone(asns, cs))

(***************************************************************************)
(* The state each operation leaves alone while another one is checked.     *)
(***************************************************************************)
NoResult == [raised |-> FALSE, value |-> 0]

IdleValid == asn = Wide(0) /\ ok = FALSE

IdleBgp == segs = <<>> /\ token = <<>> /\ result = NoResult

IdleData ==
    /\ as2org = [a \in ASNS |-> "OrgX"]
    /\ cone = [a \in ASNS |-> {a}]
    /\ conesize = [a \in ASNS |-> 0]

IdleTable == table = <<>> /\ layer = 0 /\ kept = <<>> /\ idx = 0

IdleRead == lines = <<>> /\ ln = 0 /\ prefixes = <<>> /\ stale = 0

(***************************************************************************)
(* The reference data: the AS-to-organization mapping, the customer cones  *)
(* (an AS is in its own cone) and the cone sizes.                          *)
(***************************************************************************)
OrgMaps == {f \in [ASNS -> Orgs] : f[2] = "OrgX"}

Cones == {f \in [ASNS -> SUBSET ASNS] : \A a \in ASNS : a \in f[a]}

ConeSizes == [ASNS -> 0..MaxConeSize]

(***************************************************************************)
(* One call of determine_bgp on a token and reference data.                *)
(***************************************************************************)
InitBgp ==
    /\ pc = "bgp_call"
    /\ segs \in TokenShapes
    /\ token = FormatToken(segs)
    /\ as2org \in OrgMaps
    /\ cone \in Cones
    /\ conesize \in ConeSizes
    /\ result = NoResult
    /\ IdleValid /\ IdleTable /\ IdleRead

DetermineReturns ==
    /\ pc = "bgp_call"
    /\ LET r == determine_bgp(token, as2org, cone, conesize)
       IN  ~r.raised /\ result' = r
    /\ pc' = "bgp_done"
    /\ UNCHANGED <<segs, token, dataVars, validVars, tableVars, readVars>>

DetermineRaises ==
    /\ pc = "bgp_call"
    /\ determine_bgp(token, as2org, cone, conesize).raised
    /\ result' = Raised
    /\ pc' = "bgp_raised"
    /\ UNCHANGED <<segs, token, dataVars, validVars, tableVars, readVars>>

NextBgp == DetermineReturns \/ DetermineRaises

SpecBgp == InitBgp /\ [][NextBgp]_vars

(***************************************************************************)
(* Properties of determine_bgp, stated on the candidates the token was     *)
(* written from and on the reference data.                                 *)
(***************************************************************************)
Cands == CandsOf(segs)

CandSet == Range(Cands)

Returned == pc = "bgp_done" /\ WellFormed(segs)

SeveralOrgs == Len(Cands) >= 2 /\ Cardinality({as2org[a] : a \in CandSet}) > 1

\* a lies in the customer cone of every other candidate
Below(a) == \A b \in CandSet \ {a} : a \in cone[b]

LargestCone(a) == \A b \in CandSet : conesize[b] <= conesize[a]

SmallestConeOf(a) == \A b \in CandSet : conesize[a] <= conesize[b]

FirstAt(a, P(_)) ==
    \E i \in 1..Len(Cands) :
        /\ Cands[i] = a
        /\ P(a)
        /\ \A j \in 1..(i - 1) : ~P(Cands[j])

ConeSizeCase == Returned /\ SeveralOrgs /\ ~\E a \in CandSet : Below(a)

ConeMemberCase == Returned /\ SeveralOrgs /\ \E a \in CandSet : Below(a)

\* C3 as stated: with several organizations and no candidate in the cone of
\* every other one, the result has the largest cone size of the candidates
\* and is the smallest AS number among those of the largest cone size.
C3_LargestConeSmallestAsn ==
    ConeSizeCase =>
        /\ result.value \in CandSet
        /\ LargestCone(result.value)
        /\ \A b \in CandSet : LargestCone(b) => result.value <= b

\* C3 amended: with several organizations and no candidate in the cone of
\* every other one, the result has the smallest cone size of the candidates
\* and is the first candidate of that cone size in token order.
C3_SmallestConeFirst ==
    ConeSizeCase => FirstAt(result.value, SmallestConeOf)

C3_Witness ==
    /\ ConeSizeCase
    /\ \E b \in CandSet : b < result.value /\ conesize[b] > conesize[result.value]

\* C5: with several organizations and some candidate in the cone of every
\* other candidate, the result is the first such candidate in token order,
\* whatever the cone sizes are.
C5_FirstConeMember ==
    ConeMemberCase => FirstAt(result.value, Below)

C5_Witness ==
    /\ ConeMemberCase
    /\ result.value # Cands[1]
    /\ \E b \in CandSet : conesize[b] < conesize[result.value]

\* C6: on a well-formed token determine_bgp raises nothing and returns one
\* of the candidates of the token.
C6_TotalOnWellFormed ==
    (pc # "bgp_call" /\ WellFormed(segs)) =>
        /\ pc = "bgp_done"
        /\ ~result.raised
        /\ result.value \in CandSet

C6_Witness ==
    /\ ConeSizeCase
    /\ \E i \in 1..Len(segs) : segs[i].conf
    /\ \A a \in CandSet : conesize[a] = 0

(***************************************************************************)
(* The other tokens that differ from the token of the state only by the    *)
(* order of the members inside its confederations.                         *)
(***************************************************************************)
PermsOf(m) ==
    {[i \in 1..Len(m) |-> m[q[i]]] :
        q \in {f \in [1..Len(m) -> 1..Len(m)] :
                  \A i, j \in 1..Len(m) : f[i] = f[j] => i = j}}

RECURSIVE PermSegs(_)
PermSegs(ss) ==
    IF ss = <<>> THEN {<<>>}
    ELSE {<<[conf |-> ss[1].conf, mem |-> m]>> \o rest :
              m \in PermsOf(ss[1].mem), rest \in PermSegs(Tail(ss))}

ConfPerms == PermSegs(segs) \ {segs}

Permuted(ss) == determine_bgp(FormatToken(ss), as2org, cone, conesize)

\* C8 as stated: permuting the members of a confederation leaves the
\* returned AS number unchanged.
C8_OrderIndependent ==
    Returned => \A ss \in ConfPerms : Permuted(ss) = result

\* C8 amended: permuting the members of a confederation can change the
\* returned AS number, but both results meet the criterion of the same rule:
\* the only candidate, candidates of the one organization, candidates in the
\* cone of every other candidate, or candidates of the smallest cone size.
C8_SameCriterion ==
    Returned =>
        \A ss \in ConfPerms :
            LET r == Permuted(ss)
            IN  /\ ~r.raised
                /\ r.value \in CandSet
                /\ Len(Cands) = 1 => r.value = result.value
                /\ (Len(Cands) >= 2 /\ ~SeveralOrgs) =>
                       as2org[r.value] = as2org[result.value]
                /\ ConeMemberCase => Below(r.value) /\ Below(result.value)
                /\ ConeSizeCase =>
                       SmallestConeOf(r.value) /\ SmallestConeOf(result.value)

C8_Witness ==
    /\ ConeMemberCase
    /\ \E ss \in ConfPerms : Permuted(ss).value # result.value

(***************************************************************************)
(* One call of valid() on an AS number: the numbers within Radius of each  *)
(* threshold of line 14 and the whole band 64496..131071.                  *)
(***************************************************************************)
Shift(a, d) == [hi |-> a.hi + ((a.lo + d) \div Limb), lo |-> (a.lo + d) % Limb]

Thresholds ==
    {Wide(0), Wide(AS_TRANS), Wide(ReservedLow), Wide(ReservedHigh), AsnLimit}

ReservedBand ==
    {[hi |-> 0, lo |-> l] : l \in ReservedLow..(Limb - 1)}
        \cup {[hi |-> 1, lo |-> l] : l \in 0..(Limb - 1)}

AsnSamples ==
    {Shift(t, d) : t \in Thresholds, d \in (0 - Radius)..Radius} \cup ReservedBand

InitValid ==
    /\ pc = "valid_call"
    /\ asn \in AsnSamples
    /\ ok = FALSE
    /\ IdleBgp /\ IdleData /\ IdleTable /\ IdleRead

ValidAccepts ==
    /\ pc = "valid_call"
    /\ valid(asn)
    /\ ok' = TRUE
    /\ pc' = "valid_done"
    /\ UNCHANGED <<asn, bgpVars, dataVars, tableVars, readVars>>

ValidRejects ==
    /\ pc = "valid_call"
    /\ ~valid(asn)
    /\ ok' = FALSE
    /\ pc' = "valid_done"
    /\ UNCHANGED <<asn, bgpVars, dataVars, tableVars, readVars>>

NextValid == ValidAccepts \/ ValidRejects

SpecValid == InitValid /\ [][NextValid]_vars

Is(h, l) == asn = [hi |-> h, lo |-> l]

\* C7: valid(asn) holds exactly for 0 < asn < 64496 except 23456 and for
\* 131071 < asn < 4200000000 (= 64086 * 65536 + 59904); 23456, 0, 64496,
\* 131071 and 4200000000 are rejected, 64495 and 131072 accepted, and the
\* whole band 64496..131071 is rejected.
C7_ValidRanges ==
    pc = "valid_done" =>
        /\ ok <=> \/ asn.hi = 0 /\ asn.lo >= 1 /\ asn.lo <= 64495 /\ asn.lo # 23456
                  \/ asn.hi >= 2 /\ asn.hi <= 64085
                  \/ asn.hi = 64086 /\ asn.lo <= 59903
        /\ (Is(0, 23456) \/ Is(0, 0) \/ Is(0, 64496) \/ Is(1, 65535)
               \/ Is(64086, 59904)) => ~ok
        /\ (Is(0, 64495) \/ Is(2, 0)) => ok
        /\ asn \in ReservedBand => ~ok

C7_Witness == pc = "valid_done" /\ Is(2, 0) /\ ok

(***************************************************************************)
(* The lookup table (traceutils IP2AS, a radix tree).  A prefix is the     *)
(* sequence of its leading bits; the table maps the stored prefixes to     *)
(* their entries.  An entry also remembers the layer that recorded it:     *)
(* 0 private reservation, 1 exchange points, 2 routing table, 3 registry.  *)
(***************************************************************************)
\* q is p or a shorter prefix that contains p
Covers(q, p) == Len(q) <= Len(p) /\ SubSeq(p, 1, Len(q)) = q

Covering(tbl, p) == {q \in DOMAIN tbl : Covers(q, p)}

\* table.search_best_prefix(prefix) finds a node
HasBest(tbl, p) == Covering(tbl, p) # {}

\* table.search_best_prefix(prefix): the longest stored prefix covering p
SearchBest(tbl, p) ==
    CHOOSE q \in Covering(tbl, p) : \A r \in Covering(tbl, p) : Len(r) <= Len(q)

\* table.add(prefix, asn=a): the node of the prefix is created or rewritten
Add(tbl, p, a, l) ==
    [q \in DOMAIN tbl \cup {p} |->
        IF q = p THEN [asn |-> a, layer |-> l] ELSE tbl[q]]

PrivateBlocks == {<<1, 1>>}

PrivateAsn == 0 - 2

\* table.add_private()
AddPrivateBlocks(tbl) ==
    [q \in DOMAIN tbl \cup PrivateBlocks |->
        IF q \in PrivateBlocks THEN [asn |-> PrivateAsn, layer |-> 0] ELSE tbl[q]]

(***************************************************************************)
(* The inputs of create_table.                                             *)
(***************************************************************************)
PrefixUniverse == {<<0>>, <<0, 0>>, <<0, 1>>, <<1>>, <<1, 1>>}

Addresses == [1..2 -> {0, 1}]

IxpIds == {7}

RoutingTokens == {FormatToken(<<Plain(2)>>), FormatToken(<<Conf(<<10, 3>>)>>)}

RirShapes == {<<Plain(2), Plain(3)>>, <<Plain(3), Plain(2)>>}

RirTokens == {FormatToken(sh) : sh \in RirShapes}

Items(toks) == [prefix : PrefixUniverse, tok : toks]

\* peeringdb.prefixes is a dict: no prefix twice
IxpInputs ==
    {s \in SeqsUpTo([prefix : PrefixUniverse, id : IxpIds], MaxLayer) :
        \A i, j \in 1..Len(s) : s[i].prefix = s[j].prefix => i = j}

RoutingInputs == SeqsUpTo(Items(RoutingTokens), MaxLayer)

RirInputs == SeqsUpTo(Items(RirTokens), MaxLayer)

(***************************************************************************)
(* create_table, lines 17-32.                                              *)
(***************************************************************************)
\* lines 20, 23, 27 without the condition of the comprehension
UncoveredAll(input, tbl) == input

\* lines 20, 23, 27 testing for the prefix itself instead of its best match
UncoveredExact(input, tbl) == SelectSeq(input, LAMBDA it : it.prefix \notin DOMAIN tbl)

\* lines 20, 23, 27: [... for prefix, x in input if not table.search_best_prefix(prefix)]
Uncovered(input, tbl) == SelectSeq(input, LAMBDA it : ~HasBest(tbl, it.prefix))

\* line 22: asn=(-100 - ixp_id)
IxpAsn(id) == (0 - 100) - id

\* line 29: int() of a segment that is no number raises ValueError
RirRaises(tok) == \E i \in 1..Len(SplitOn(tok, "_")) : ~IntOk(SplitOn(tok, "_")[i])

\* line 30 with the key (conesize[x], x)
RirAsnLargerNumber(tok, cs) ==
    LET asns == IntAll(SplitOn(tok, "_"))
        Le(x, y) == cs[x] < cs[y] \/ (cs[x] = cs[y] /\ x <= y)
        i == CHOOSE k \in 1..Len(asns) :
                 /\ \A j \in 1..Len(asns) : Le(asns[j], asns[k])
                 /\ \A j \in 1..(k - 1) : ~Le(asns[k], asns[j])
    IN  asns[i]

\* lines 29-30: max(asns, key=lambda x: (bgp.conesize[x], -x)), the first
\* item whose key no other key exceeds, keys compared as tuples
RirAsn(tok, cs) ==
    LET asns == IntAll(SplitOn(tok, "_"))
        Le(x, y) == cs[x] < cs[y] \/ (cs[x] = cs[y] /\ (0 - x) <= (0 - y))
        i == CHOOSE k \in 1..Len(asns) :
                 /\ \A j \in 1..Len(asns) : Le(asns[j], asns[k])
                 /\ \A j \in 1..(k - 1) : ~Le(asns[k], asns[j])
    IN  asns[i]

\* cone sizes that tie AS 2 and AS 3, and that put one above the other
TableConeSizes ==
    {[a \in ASNS |-> 0],
     [a \in ASNS |-> IF a = 2 THEN MaxConeSize ELSE 0],
     [a \in ASNS |-> IF a = 3 THEN MaxConeSize ELSE 0]}

InitTable ==
    /\ pc = "tbl_start"
    /\ table = <<>>
    /\ layer = 0
    /\ kept = <<>>
    /\ idx = 0
    /\ as2org = [a \in ASNS |-> "OrgX"]
    /\ cone = [a \in ASNS |-> {a}]
    /\ conesize \in TableConeSizes
    /\ IdleValid /\ IdleBgp /\ IdleRead

Untouched == <<validVars, bgpVars, dataVars, readVars>>

LayerDone == pc = "tbl_insert" /\ idx > Len(kept)

\* lines 18-19
AddPrivate ==
    /\ pc = "tbl_start"
    /\ table' = AddPrivateBlocks(table)
    /\ pc' = "tbl_filter"
    /\ UNCHANGED <<layer, kept, idx, Untouched>>

\* line 20
FilterIxp ==
    /\ pc = "tbl_filter"
    /\ \E input \in IxpInputs : kept' = Uncovered(input, table)
    /\ layer' = 1
    /\ idx' = 1
    /\ pc' = "tbl_insert"
    /\ UNCHANGED <<table, Untouched>>

\* lines 21-22
InsertIxp ==
    /\ pc = "tbl_insert" /\ layer = 1 /\ idx <= Len(kept)
    /\ table' = Add(table, kept[idx].prefix, IxpAsn(kept[idx].id), 1)
    /\ idx' = idx + 1
    /\ UNCHANGED <<pc, layer, kept, Untouched>>

\* line 23
FilterRouting ==
    /\ LayerDone /\ layer = 1
    /\ \E input \in RoutingInputs : kept' = Uncovered(input, table)
    /\ layer' = 2
    /\ idx' = 1
    /\ UNCHANGED <<pc, table, Untouched>>

\* lines 24-26
InsertRouting ==
    /\ pc = "tbl_insert" /\ layer = 2 /\ idx <= Len(kept)
    /\ LET r == determine_bgp(kept[idx].tok, as2org, cone, conesize)
       IN  IF r.raised
           THEN pc' = "tbl_raised" /\ UNCHANGED <<table, idx>>
           ELSE /\ table' = Add(table, kept[idx].prefix, r.value, 2)
                /\ idx' = idx + 1
                /\ pc' = pc
    /\ UNCHANGED <<layer, kept, Untouched>>

\* line 27
FilterRir ==
    /\ LayerDone /\ layer = 2
    /\ \E input \in RirInputs : kept' = Uncovered(input, table)
    /\ layer' = 3
    /\ idx' = 1
    /\ UNCHANGED <<pc, table, Untouched>>

\* lines 28-31
InsertRir ==
    /\ pc = "tbl_insert" /\ layer = 3 /\ idx <= Len(kept)
    /\ IF RirRaises(kept[idx].tok)
       THEN pc' = "tbl_raised" /\ UNCHANGED <<table, idx>>
       ELSE /\ table' = Add(table, kept[idx].prefix, RirAsn(kept[idx].tok, conesize), 3)
            /\ idx' = idx + 1
            /\ pc' = pc
    /\ UNCHANGED <<layer, kept, Untouched>>

\* line 32
ReturnTable ==
    /\ LayerDone /\ layer = 3
    /\ pc' = "tbl_done"
    /\ UNCHANGED <<tableVars, Untouched>>

NextTable ==
    \/ AddPrivate
    \/ FilterIxp \/ InsertIxp
    \/ FilterRouting \/ InsertRouting
    \/ FilterRir \/ InsertRir
    \/ ReturnTable

SpecTable == InitTable /\ [][NextTable]_vars

(***************************************************************************)
(* Properties of create_table.                                             *)
(***************************************************************************)
Stored == DOMAIN table

Inserting == pc = "tbl_insert" /\ idx <= Len(kept)

\* an insertion of the current layer has been made
Inserted == pc \in {"tbl_insert", "tbl_done"} /\ layer >= 1 /\ idx > 1

LayersKeepPriority ==
    /\ \A q \in Stored : \A p \in Stored :
           Covers(q, p) => table[p].layer <= table[q].layer
    /\ \A a \in Addresses : \A q \in Covering(table, a) :
           table[SearchBest(table, a)].layer <= table[q].layer

NoLaterLayerRewrites ==
    \A q \in Stored : q \in DOMAIN table' /\ table'[q].layer = table[q].layer

\* C1: an entry recorded by one layer is never rewritten by a later layer,
\* no later layer records that prefix or a prefix it covers, and the longest
\* match of an address covered by an entry of layer L was recorded by layer L
\* or by a layer of higher priority.
C1_LayerPriority == [](LayersKeepPriority) /\ [][NoLaterLayerRewrites]_vars

C1_Witness ==
    /\ pc = "tbl_done"
    /\ {table[q].layer : q \in Stored} = 0..3
    /\ \E q \in Stored : \E p \in Stored :
           Covers(q, p) /\ table[p].layer = 1 /\ table[q].layer = 2

\* C2 as stated: whenever a prefix is about to be inserted, the table has no
\* best match for it.
C2_NoBestMatchAtInsertion ==
    Inserting => ~HasBest(table, kept[idx].prefix)

\* C2 amended: whenever a prefix is about to be inserted, every stored prefix
\* that equals or covers it was inserted earlier in the same layer, so the
\* table had no best match for it when the layer's filter was evaluated.
C2_NoBestMatchAtFilter ==
    Inserting =>
        \A q \in Covering(table, kept[idx].prefix) :
            /\ table[q].layer = layer
            /\ \E j \in 1..(idx - 1) : kept[j].prefix = q

C2_Witness ==
    /\ Inserted
    /\ \E j \in 1..(idx - 2) :
           /\ Covers(kept[j].prefix, kept[idx - 1].prefix)
           /\ kept[j].prefix # kept[idx - 1].prefix
    /\ table[kept[idx - 1].prefix].layer = layer

RirInserted == Inserted /\ layer = 3

\* the candidates the token of the last inserted registry entry was written from
LastRirCands ==
    Range(CandsOf(CHOOSE sh \in RirShapes : FormatToken(sh) = kept[idx - 1].tok))

LastRirAsn == table[kept[idx - 1].prefix].asn

LargestOfLast(a) == \A b \in LastRirCands : conesize[b] <= conesize[a]

\* C4 as stated: the registry layer records the candidate of the largest
\* cone size and, among those of the largest cone size, the larger AS number.
C4_LargestConeLargerAsn ==
    RirInserted =>
        /\ LastRirAsn \in LastRirCands
        /\ LargestOfLast(LastRirAsn)
        /\ \A b \in LastRirCands : LargestOfLast(b) => b <= LastRirAsn

\* C4 amended: the registry layer records the candidate of the largest cone
\* size and, among those of the largest cone size, the smallest AS number.
C4_LargestConeSmallestAsn ==
    RirInserted =>
        /\ LastRirAsn \in LastRirCands
        /\ LargestOfLast(LastRirAsn)
        /\ \A b \in LastRirCands : LargestOfLast(b) => LastRirAsn <= b

C4_Witness ==
    /\ RirInserted
    /\ kept[idx - 1].tok = FormatToken(<<Plain(3), Plain(2)>>)
    /\ conesize[2] = conesize[3]
    /\ LastRirAsn = 2

(***************************************************************************)
(* The files handed to read_prefixes: comment lines, two-field lines and   *)
(* delegation lines `address prefixLength AS-set`.  An AS of the samples   *)
(* carries its text in the file, whether it is a usable AS number, and its *)
(* decimal text.                                                           *)
(***************************************************************************)
As131072 ==
    [txt |-> <<"1", "3", "1", "0", "7", "2">>, good |-> TRUE,
     canon |-> <<"1", "3", "1", "0", "7", "2">>]

As23456 ==
    [txt |-> <<"2", "3", "4", "5", "6">>, good |-> FALSE,
     canon |-> <<"2", "3", "4", "5", "6">>]

As07 == [txt |-> <<"0", "7">>, good |-> TRUE, canon |-> <<"7">>]

As4200000000 ==
    [txt |-> <<"4", "2", "0", "0", "0", "0", "0", "0", "0", "0">>, good |-> FALSE,
     canon |-> <<"4", "2", "0", "0", "0", "0", "0", "0", "0", "0">>]

AsSets ==
    {<<As131072>>, <<As23456>>, <<As23456, As07, As131072>>,
     <<As4200000000, As23456>>}

V4Addr == <<"1", ".", "2">>

V6Addr == <<"a", ":", ":">>

DelegationRecs == [addr : {V4Addr, V6Addr}, plen : {24, 25, 48, 49}, asset : AsSets]

RECURSIVE Texts(_)
Texts(as) == IF as = <<>> THEN <<>> ELSE <<as[1].txt>> \o Texts(Tail(as))

FormatDelegation(r) ==
    r.addr \o <<" ">> \o PyStr(r.plen) \o <<" ">> \o Join(Texts(r.asset), "_")

CommentLine == <<"#", " ", " ", "x">>

TwoFieldLine == <<"a", "/", "8", " ", "5">>

FileLines == {FormatDelegation(r) : r \in DelegationRecs} \cup {CommentLine, TwoFieldLine}

Files == SeqsUpTo(FileLines, MaxLines)

(***************************************************************************)
(* read_prefixes, lines 57-83.                                             *)
(***************************************************************************)
RECURSIVE WideAll(_)
WideAll(ms) == IF ms = <<>> THEN <<>> ELSE <<PyIntWide(ms[1])>> \o WideAll(Tail(ms))

RECURSIVE StrWideAll(_)
StrWideAll(ns) ==
    IF ns = <<>> THEN <<>> ELSE <<PyStrWide(ns[1])>> \o StrWideAll(Tail(ns))

\* line 70: [asn for asn in map(int, asn_s.split('_')) if valid(asn)]
ValidAsns(asn_s) == SelectSeq(WideAll(SplitOn(asn_s, "_")), valid)

\* lines 75-80 with >= in the place of >
TooLongFromCap(addr, prefixlen) ==
    IF Has(addr, ":") THEN prefixlen >= 48 ELSE prefixlen >= 24

\* lines 75-80
TooLong(addr, prefixlen) ==
    IF Has(addr, ":") THEN prefixlen > 48 ELSE prefixlen > 24

\* line 67
IsComment(line) == line # <<>> /\ line[1] = "#"

\* lines 69, 70 and 74: the unpacking of a line that has not three fields and
\* int() of a field that is no number raise ValueError
DelegationRaises(line) ==
    LET f == SplitWs(line)
    IN  IF Len(f) # 3 THEN TRUE
        ELSE IF \E i \in 1..Len(SplitOn(f[3], "_")) : ~IntOk(SplitOn(f[3], "_")[i])
             THEN TRUE
        ELSE ValidAsns(f[3]) # <<>> /\ ~IntOk(f[2])

\* lines 71-72 and 74-80
DelegationSkipped(line) ==
    LET f == SplitWs(line)
    IN  IF ValidAsns(f[3]) = <<>> THEN TRUE ELSE TooLong(f[1], PyInt(f[2]))

\* lines 73 and 81-82
DelegationEntry(line) ==
    LET f == SplitWs(line)
    IN  <<f[1] \o <<"/">> \o PyStr(PyInt(f[2])), Join(StrWideAll(ValidAsns(f[3])), "_")>>

InitRead ==
    /\ pc = "rd_pass1"
    /\ lines \in Files
    /\ ln = 1
    /\ prefixes = <<>>
    /\ stale = 0
    /\ IdleValid /\ IdleBgp /\ IdleData /\ IdleTable

Others == <<validVars, bgpVars, dataVars, tableVars>>

\* lines 60-63: a line of two fields is appended
TwoFieldAppend ==
    /\ pc = "rd_pass1" /\ ln <= Len(lines)
    /\ Len(SplitWs(lines[ln])) = 2
    /\ prefixes' = Append(prefixes, <<SplitWs(lines[ln])[1], SplitWs(lines[ln])[2]>>)
    /\ ln' = ln + 1
    /\ UNCHANGED <<pc, lines, stale, Others>>

\* lines 62, 64-65: the unpacking raises ValueError and the file is read again
TwoFieldAbandon ==
    /\ pc = "rd_pass1" /\ ln <= Len(lines)
    /\ Len(SplitWs(lines[ln])) # 2
    /\ pc' = "rd_pass2"
    /\ ln' = 1
    /\ stale' = Len(prefixes)
    /\ UNCHANGED <<lines, prefixes, Others>>

\* line 83 after the two-field pass
TwoFieldReturn ==
    /\ pc = "rd_pass1" /\ ln > Len(lines)
    /\ pc' = "rd_done1"
    /\ UNCHANGED <<lines, ln, prefixes, stale, Others>>

\* lines 67-68
DelegationComment ==
    /\ pc = "rd_pass2" /\ ln <= Len(lines)
    /\ IsComment(lines[ln])
    /\ ln' = ln + 1
    /\ UNCHANGED <<pc, lines, prefixes, stale, Others>>

\* a ValueError inside the except clause leaves read_prefixes
DelegationRaise ==
    /\ pc = "rd_pass2" /\ ln <= Len(lines)
    /\ ~IsComment(lines[ln])
    /\ DelegationRaises(lines[ln])
    /\ pc' = "rd_raised"
    /\ UNCHANGED <<lines, ln, prefixes, stale, Others>>

\* lines 71-72 and 75-80: continue
DelegationSkip ==
    /\ pc = "rd_pass2" /\ ln <= Len(lines)
    /\ ~IsComment(lines[ln])
    /\ ~DelegationRaises(lines[ln])
    /\ DelegationSkipped(lines[ln])
    /\ ln' = ln + 1
    /\ UNCHANGED <<pc, lines, prefixes, stale, Others>>

\* lines 81-82
DelegationKeep ==
    /\ pc = "rd_pass2" /\ ln <= Len(lines)
    /\ ~IsComment(lines[ln])
    /\ ~DelegationRaises(lines[ln])
    /\ ~DelegationSkipped(lines[ln])
    /\ prefixes' = Append(prefixes, DelegationEntry(lines[ln]))
    /\ ln' = ln + 1
    /\ UNCHANGED <<pc, lines, stale, Others>>

\* line 83 after the delegation pass
DelegationReturn ==
    /\ pc = "rd_pass2" /\ ln > Len(lines)
    /\ pc' = "rd_done2"
    /\ UNCHANGED <<lines, ln, prefixes, stale, Others>>

NextRead ==
    \/ TwoFieldAppend \/ TwoFieldAbandon \/ TwoFieldReturn
    \/ DelegationComment \/ DelegationRaise \/ DelegationSkip \/ DelegationKeep
    \/ DelegationReturn

SpecRead == InitRead /\ [][NextRead]_vars

(***************************************************************************)
(* Properties of read_prefixes, stated on the records the lines were       *)
(* written from.                                                           *)
(***************************************************************************)
IsDelegation(line) == \E r \in DelegationRecs : FormatDelegation(r) = line

RecOf(line) == CHOOSE r \in DelegationRecs : FormatDelegation(r) = line

RECURSIVE GoodCanon(_)
GoodCanon(as) ==
    IF as = <<>> THEN <<>>
    ELSE (IF as[1].good THEN <<as[1].canon>> ELSE <<>>) \o GoodCanon(Tail(as))

Produces(r) ==
    /\ \E i \in 1..Len(r.asset) : r.asset[i].good
    /\ IF r.addr = V6Addr THEN r.plen <= 48 ELSE r.plen <= 24

EntryOf(r) == <<r.addr \o <<"/">> \o PyStr(r.plen), Join(GoodCanon(r.asset), "_")>>

\* the entries the delegation lines among the first n lines stand for
RECURSIVE Expected(_)
Expected(n) ==
    IF n = 0 THEN <<>>
    ELSE Expected(n - 1) \o
             (IF IsDelegation(lines[n]) /\ Produces(RecOf(lines[n]))
              THEN <<EntryOf(RecOf(lines[n]))>> ELSE <<>>)

InDelegationPass == pc \in {"rd_pass2", "rd_done2", "rd_raised"}

\* C9: in the delegation pass a line `address prefixLength AS-set` adds an
\* entry exactly when some AS of the set is usable and the length is at most
\* 24 (IPv4) or 48 (IPv6); the entry is address/prefixLength with the usable
\* ASes of the set in their order.
C9_DelegationEntries ==
    InDelegationPass =>
        SubSeq(prefixes, stale + 1, Len(prefixes)) = Expected(ln - 1)

C9_Witness ==
    /\ pc = "rd_done2"
    /\ Len(lines) = 2
    /\ lines[1] = FormatDelegation([addr |-> V4Addr, plen |-> 25, asset |-> <<As131072>>])
    /\ lines[2] = FormatDelegation(
                      [addr |-> V4Addr, plen |-> 24, asset |-> <<As23456, As07, As131072>>])
    /\ prefixes = <<<<V4Addr \o <<"/", "2", "4">>,
                      <<"7", "_", "1", "3", "1", "0", "7", "2">>>>>>

\* C10: when the two-field pass is abandoned and the file is read again, the
\* returned list holds only the entries of the delegation pass.
C10_OnlyDelegationEntries ==
    pc = "rd_done2" => prefixes = Expected(Len(lines))

(***************************************************************************)
(* The program as a whole: any one of its operations, from its call to its *)
(* return.                                                                 *)
(***************************************************************************)
Init == InitValid \/ InitBgp \/ InitTable \/ InitRead

Next == NextValid \/ NextBgp \/ NextTable \/ NextRead

Spec == Init /\ [][Next]_vars

====
